---- MODULE Spec2Model ----
(***************************************************************************)
(* The financial calculation engine of the dashboard: the debt payoff      *)
(* planner of DebtStrategyCard (ordering, extra-payment allocation,        *)
(* closed-form amortization, aggregates) under Spec, the health score of   *)
(* FinancialHealthScore under SpecHealth, the growth projection of         *)
(* FIREProgressCard under SpecFire and the goal cards and the monthly      *)
(* savings figure of GoalsTracker under SpecGoals.                         *)
(*                                                                         *)
(* JavaScript numbers are modelled as exact rationals extended with the    *)
(* IEEE-754 values Infinity, -Infinity and NaN.  Rounding of finite        *)
(* results is not modelled, except where a result is fed to Math.ceil and  *)
(* its exact value is an integer: there the rounding direction decides the *)
(* outcome, and the state variable ulpUp fixes that direction.             *)
(***************************************************************************)
EXTENDS Integers, Sequences, FiniteSets, TLC

VARIABLES
    debts,                \* props.debts, the input list (never written)
    strategy,             \* useState: "avalanche" | "snowball"
    ulpUp,                \* IEEE rounding direction at exact integer quotients
    sortedDebts,          \* [...debts].sort(...)
    totalDebt,            \* sum of balances
    totalMinimumPayment,  \* sum of minimum payments
    weightedAPR,          \* sum(rate * balance) / totalDebt
    payoffPlan,           \* one entry per sorted debt
    profile,              \* FinancialHealthScore's props.profile (never written)
    health,               \* what FinancialHealthScore computed from it
    metrics,              \* FIREProgressCard's useState(mockFIREMetrics) (never set)
    firePc,               \* FIREProgressCard's position: "idle" | "loop" | "done"
    year,                 \* the loop variable of the projection
    projectionData,       \* the points pushed so far
    fire,                 \* the figures computed from the projection
    goals,                \* GoalsTracker's props.goals (never written)
    now,                  \* the wall clock that new Date() reads, in ticks
    goalsPc,              \* GoalsTracker's position: "idle" | "monthly" | "days" | "sum" | "done"
    goalIdx,              \* the goal that map, then reduce, is at
    sortedGoals,          \* [...goals].sort(...)
    totalGoalValue,       \* sum of target amounts
    totalSaved,           \* sum of current amounts
    overallProgress,      \* totalSaved / totalGoalValue * 100
    monthlyNeeded,        \* the const of the map callback
    goalCards,            \* the cards rendered so far
    monthlyTotal          \* the accumulator of the monthly savings figure

cardVars == <<debts, strategy, ulpUp, sortedDebts, totalDebt, totalMinimumPayment,
              weightedAPR, payoffPlan>>

healthVars == <<profile, health>>

fireVars == <<metrics, firePc, year, projectionData, fire>>

goalsVars == <<goals, now, goalsPc, goalIdx, sortedGoals, totalGoalValue, totalSaved,
               overallProgress, monthlyNeeded, goalCards, monthlyTotal>>

vars == <<cardVars, healthVars, fireVars, goalsVars>>

----------------------------------------------------------------------------
(* Bounds of the model *)

MaxDebts == 3
BalanceStep == 600
PayStep == 400
MaxIncomes == 2
IncomeStep == 600
ExpenseStep == 1000
AssetStep == 1500
EmergencyFundStep == 8000
MaxHorizon == 1
SavingsStep == 10
ContributionStep == 1
TargetStep == 5
MaxGoals == 2
GoalStep == 300
TicksPerDay == 2
MaxClock == 1

\* amounts in dollars
Balances == {0, BalanceStep}
MinimumPayments == {0, PayStep}
\* annual percentage rates: the monthly rates 0, 1/2 and 1 keep the powers of
\* 1 + r within TLC's integers
InterestRates == {0, 600, 1200}

----------------------------------------------------------------------------
(* JavaScript numbers *)

Abs(i) == IF i < 0 THEN -i ELSE i

RECURSIVE Gcd(_, _)
Gcd(a, b) == IF b = 0 THEN a ELSE Gcd(b, a % b)

\* the rational n/d (d # 0) in lowest terms with a positive denominator
Fin(n, d) ==
    LET g == Gcd(Abs(n), Abs(d))
        s == IF d < 0 THEN -1 ELSE 1
    IN  [k |-> "fin", n |-> s * (n \div g), d |-> s * (d \div g)]

Num(i) == [k |-> "fin", n |-> i, d |-> 1]
NaN == [k |-> "nan", n |-> 0, d |-> 1]
PosInf == [k |-> "inf", n |-> 0, d |-> 1]
NegInf == [k |-> "ninf", n |-> 0, d |-> 1]

IsFin(a) == a.k = "fin"
IsNaN(a) == a.k = "nan"

\* -1, 0 or 1; not defined on NaN
Sign(a) ==
    CASE a.k = "inf" -> 1
      [] a.k = "ninf" -> -1
      [] a.k = "fin" -> IF a.n > 0 THEN 1 ELSE IF a.n < 0 THEN -1 ELSE 0

Signed(s) == IF s > 0 THEN PosInf ELSE NegInf

\* a < b on the extended reals; FALSE when either is NaN
JsLt(a, b) ==
    IF a.k = "fin" /\ b.k = "fin" THEN a.n * b.d < b.n * a.d
    ELSE IF IsNaN(a) \/ IsNaN(b) THEN FALSE
    ELSE (a.k = "ninf" /\ b.k # "ninf") \/ (b.k = "inf" /\ a.k # "inf")

JsEq(a, b) == a.k # "nan" /\ a = b
JsLe(a, b) ==
    IF a.k = "fin" /\ b.k = "fin" THEN a.n * b.d <= b.n * a.d
    ELSE JsLt(a, b) \/ JsEq(a, b)

\* the sum over the least common denominator
JsAdd(a, b) ==
    IF a.k = "fin" /\ b.k = "fin" THEN
        LET g == Gcd(a.d, b.d)
        IN  Fin(a.n * (b.d \div g) + b.n * (a.d \div g), (a.d \div g) * b.d)
    ELSE CASE IsNaN(a) \/ IsNaN(b) -> NaN
      [] IsFin(a) -> b
      [] IsFin(b) -> a
      [] OTHER -> IF a = b THEN a ELSE NaN

JsNeg(a) ==
    IF a.k = "fin" THEN [a EXCEPT !.n = -a.n]
    ELSE IF IsNaN(a) THEN NaN ELSE Signed(-Sign(a))

JsSub(a, b) == JsAdd(a, JsNeg(b))

JsMul(a, b) ==
    IF a.k = "fin" /\ b.k = "fin" THEN Fin(a.n * b.n, a.d * b.d)
    ELSE IF IsNaN(a) \/ IsNaN(b) THEN NaN
    ELSE IF Sign(a) * Sign(b) = 0 THEN NaN ELSE Signed(Sign(a) * Sign(b))

\* zero is +0 throughout: every divisor here is a sum of non-negative terms
JsDiv(a, b) ==
    IF a.k = "fin" /\ b.k = "fin" THEN
            IF b.n # 0 THEN Fin(a.n * b.d, a.d * b.n)
            ELSE IF a.n = 0 THEN NaN ELSE Signed(Sign(a))
    ELSE CASE IsNaN(a) \/ IsNaN(b) -> NaN
      [] IsFin(a) -> Num(0)
      [] IsFin(b) -> Signed(Sign(a) * (IF Sign(b) < 0 THEN -1 ELSE 1))
      [] OTHER -> NaN

\* Math.min and Math.max of two numbers: NaN when either is NaN
JsMin(a, b) ==
    IF IsNaN(a) \/ IsNaN(b) THEN NaN ELSE IF JsLt(b, a) THEN b ELSE a

JsMax(a, b) ==
    IF IsNaN(a) \/ IsNaN(b) THEN NaN ELSE IF JsLt(a, b) THEN b ELSE a

\* the greatest integer <= n/d, for d > 0
FloorDiv(n, d) == n \div d

\* Math.round: the integer nearest to a, halves rounded up; NaN and the
\* infinities are returned unchanged
JsRound(a) == IF IsFin(a) THEN Num(FloorDiv(2 * a.n + a.d, 2 * a.d)) ELSE a

\* the least integer >= n/d, for d > 0
CeilDiv(n, d) == -((-n) \div d)

----------------------------------------------------------------------------
(* Math.ceil(Math.log(x) / Math.log(base)) *)

\* the least n >= from with base^n >= x, for rationals x >= 1 and base > 1;
\* pn/pd is base^from
RECURSIVE LeastPower(_, _, _, _, _)
LeastPower(x, base, from, pn, pd) ==
    IF pn * x.d >= x.n * pd THEN <<from, pn * x.d = x.n * pd>>
    ELSE LeastPower(x, base, from + 1, pn * base.n, pd * base.d)

\* Defined where calculatePayoffTime evaluates it: x >= 1 and base >= 1, both
\* finite.  log(1) is 0, so base = 1 gives 0/0 = NaN at x = 1 and +Infinity
\* above it.  up: a quotient whose exact value is a positive integer comes out
\* one ulp above it, and Math.ceil moves to the next integer.
CeilLogQuot(x, base, up) ==
    CASE base.n = base.d /\ x.n = x.d -> NaN
      [] base.n = base.d /\ x.n > x.d -> PosInf
      [] base.n > base.d /\ x.n = x.d -> Num(0)
      [] base.n > base.d /\ x.n > x.d ->
            LET least == LeastPower(x, base, 1, base.n, base.d)
            IN  IF up /\ least[2] THEN Num(least[1] + 1) ELSE Num(least[1])

----------------------------------------------------------------------------
(* DebtStrategyCard *)

DebtData == [balance : Balances, interestRate : InterestRates,
             minimumPayment : MinimumPayments]

NamedDebt(i, data) ==
    [name |-> i, balance |-> data.balance, interestRate |-> data.interestRate,
     minimumPayment |-> data.minimumPayment]

\* the input list built from its debts' data, named 1..n in input order
DebtList(data) == [i \in 1..Len(data) |-> NamedDebt(i, data[i])]

Strategies == {"avalanche", "snowball"}

\* mutant: avalanche compares the rates the wrong way round
CompareDebts_Ascending(a, b, strat) ==
    IF strat = "avalanche" THEN a.interestRate - b.interestRate
    ELSE a.balance - b.balance

\* the comparator handed to Array.prototype.sort
CompareDebts(a, b, strat) ==
    IF strat = "avalanche" THEN b.interestRate - a.interestRate
    ELSE a.balance - b.balance

\* mutant: an unstable sort, x placed before the elements it ties with
RECURSIVE InsertDebt_BeforeTies(_, _, _)
InsertDebt_BeforeTies(x, s, strat) ==
    IF s = <<>> THEN <<x>>
    ELSE IF CompareDebts(Head(s), x, strat) < 0
         THEN <<Head(s)>> \o InsertDebt_BeforeTies(x, Tail(s), strat)
         ELSE <<x>> \o s

\* x placed behind every element that does not compare greater than it
RECURSIVE InsertDebt(_, _, _)
InsertDebt(x, s, strat) ==
    IF s = <<>> THEN <<x>>
    ELSE IF CompareDebts(Head(s), x, strat) <= 0
         THEN <<Head(s)>> \o InsertDebt(x, Tail(s), strat)
         ELSE <<x>> \o s

\* Array.prototype.sort on a copy: a stable sort (ECMAScript 2019)
RECURSIVE SortDebts(_, _)
SortDebts(ds, strat) ==
    IF ds = <<>> THEN <<>>
    ELSE InsertDebt(ds[Len(ds)], SortDebts(SubSeq(ds, 1, Len(ds) - 1), strat), strat)

\* reduce((sum, x) => sum + x, 0)
RECURSIVE SumSeq(_)
SumSeq(s) == IF s = <<>> THEN 0 ELSE SumSeq(SubSeq(s, 1, Len(s) - 1)) + s[Len(s)]

TotalDebt(ds) == SumSeq([i \in 1..Len(ds) |-> ds[i].balance])

TotalMinimumPayment(ds) == SumSeq([i \in 1..Len(ds) |-> ds[i].minimumPayment])

\* mutant: the plain mean of the rates, not weighted by balance
WeightedAPR_Unweighted(ds) ==
    JsDiv(Num(SumSeq([i \in 1..Len(ds) |-> ds[i].interestRate])), Num(Len(ds)))

WeightedAPR(ds) ==
    JsDiv(Num(SumSeq([i \in 1..Len(ds) |-> ds[i].interestRate * ds[i].balance])),
          Num(TotalDebt(ds)))

\* mutant: the annual rate used as the monthly rate
MonthlyRate_Annual(debt) == JsDiv(Num(debt.interestRate), Num(100))

MonthlyRate(debt) == JsDiv(JsDiv(Num(debt.interestRate), Num(100)), Num(12))

\* the rest of calculatePayoffTime once its guard has let the payment through,
\* for any payment: a zero divisor gives x = Infinity (or NaN for 0/0) and
\* log(Infinity) / log(base) = Infinity; a negative x gives log(x) = NaN
UnguardedPayoffTime(payment, interest, monthlyRate, up) ==
    LET x == JsDiv(payment, JsSub(payment, interest))
    IN  CASE IsNaN(x) \/ JsLt(x, Num(0)) -> NaN
          [] x = PosInf -> PosInf
          [] OTHER -> CeilLogQuot(x, JsAdd(Num(1), monthlyRate), up)

\* mutant: the guard tests the payment alone, not the payment against the interest
CalculatePayoffTime_NoInterest(debt, extra, up) ==
    LET monthlyRate == MonthlyRate(debt)
        payment == JsAdd(Num(debt.minimumPayment), Num(extra))
        interest == JsMul(Num(debt.balance), monthlyRate)
    IN  IF JsLe(payment, Num(0)) THEN PosInf
        ELSE UnguardedPayoffTime(payment, interest, monthlyRate, up)

\* mutant: the guard is strict, payment < interest
CalculatePayoffTime_Strict(debt, extra, up) ==
    LET monthlyRate == MonthlyRate(debt)
        payment == JsAdd(Num(debt.minimumPayment), Num(extra))
        interest == JsMul(Num(debt.balance), monthlyRate)
    IN  IF JsLt(payment, interest) THEN PosInf
        ELSE UnguardedPayoffTime(payment, interest, monthlyRate, up)

\* the payoff time of a payment that the extra amount lowers
CalculatePayoffTime_ExtraSlows(debt, extra, up) ==
    LET monthlyRate == MonthlyRate(debt)
        payment == JsSub(Num(debt.minimumPayment), Num(extra))
        interest == JsMul(Num(debt.balance), monthlyRate)
    IN  IF JsLe(payment, interest) THEN PosInf
        ELSE UnguardedPayoffTime(payment, interest, monthlyRate, up)

CalculatePayoffTime(debt, extra, up) ==
    LET monthlyRate == MonthlyRate(debt)
        payment == JsAdd(Num(debt.minimumPayment), Num(extra))
        interest == JsMul(Num(debt.balance), monthlyRate)
    IN  IF JsLe(payment, interest) THEN PosInf
        ELSE CeilLogQuot(JsDiv(payment, JsSub(payment, interest)),
                         JsAdd(Num(1), monthlyRate), up)

ExtraPayment == 500

\* mutant: every debt is given the extra payment
PayoffPlan_ExtraForAll(sorted, up) ==
    [i \in 1..Len(sorted) |->
        [debt |-> sorted[i],
         payoffOrder |-> i,
         monthsToPayoff |-> CalculatePayoffTime(sorted[i], ExtraPayment, up),
         extraPayment |-> ExtraPayment]]

\* mutant: the extra payment skips a leading debt that never pays off and
\* goes to the debt behind it
PayoffPlan_SkipFailed(sorted, up) ==
    LET firstFails == Len(sorted) > 0 /\ CalculatePayoffTime(sorted[1], ExtraPayment, up) = PosInf
        target == IF firstFails THEN 2 ELSE 1
    IN  [i \in 1..Len(sorted) |->
            LET extra == IF i = target THEN ExtraPayment ELSE 0
            IN  [debt |-> sorted[i],
                 payoffOrder |-> i,
                 monthsToPayoff |-> CalculatePayoffTime(sorted[i], extra, up),
                 extraPayment |-> extra]]

\* the plan that numbers its entries from 0
PayoffPlan_ZeroBased(sorted, up) ==
    [i \in 1..Len(sorted) |->
        LET extra == IF i = 1 THEN ExtraPayment ELSE 0
        IN  [debt |-> sorted[i],
             payoffOrder |-> i - 1,
             monthsToPayoff |-> CalculatePayoffTime(sorted[i], extra, up),
             extraPayment |-> extra]]

PayoffPlan(sorted, up) ==
    LET remainingExtra == ExtraPayment
    IN  [i \in 1..Len(sorted) |->
            LET extra == IF i = 1 THEN remainingExtra ELSE 0
            IN  [debt |-> sorted[i],
                 payoffOrder |-> i,
                 monthsToPayoff |-> CalculatePayoffTime(sorted[i], extra, up),
                 extraPayment |-> extra]]

\* the months column of the payoff list
MonthsText(item) ==
    IF item.monthsToPayoff = PosInf THEN <<"infinity sign">>
    ELSE <<item.monthsToPayoff, "months">>

\* one render of the component
Render(strat) ==
    LET sorted == SortDebts(debts', strat)
    IN  /\ sortedDebts' = sorted
        /\ totalDebt' = TotalDebt(debts')
        /\ totalMinimumPayment' = TotalMinimumPayment(debts')
        /\ weightedAPR' = WeightedAPR(debts')
        /\ payoffPlan' = PayoffPlan(sorted, ulpUp')

\* the component's first render of the debt list ds: useState('avalanche')
FirstRender(ds, up) ==
    /\ debts = ds
    /\ ulpUp = up
    /\ strategy = "avalanche"
    /\ sortedDebts = SortDebts(ds, "avalanche")
    /\ totalDebt = TotalDebt(ds)
    /\ totalMinimumPayment = TotalMinimumPayment(ds)
    /\ weightedAPR = WeightedAPR(ds)
    /\ payoffPlan = PayoffPlan(SortDebts(ds, "avalanche"), up)

\* the selector that sets the strategy the button does not name
SetStrategy_Toggle(strat) ==
    LET other == IF strat = "avalanche" THEN "snowball" ELSE "avalanche"
    IN  IF strategy = other
        THEN UNCHANGED vars
        ELSE /\ strategy' = other
             /\ UNCHANGED <<debts, ulpUp, healthVars, fireVars, goalsVars>>
             /\ Render(other)

\* onClick={() => setStrategy(strat)}: a set to the current value renders
\* nothing anew, any other value renders the component again
SetStrategy(strat) ==
    IF strategy = strat
    THEN UNCHANGED vars
    ELSE /\ strategy' = strat
         /\ UNCHANGED <<debts, ulpUp, healthVars, fireVars, goalsVars>>
         /\ Render(strat)

SelectAvalanche == SetStrategy("avalanche")

SelectSnowball == SetStrategy("snowball")

----------------------------------------------------------------------------
(* FIREProgressCard *)

\* the years added to yearsToRetirement in the loop condition
ProjectionBuffer == 5

\* the horizons of the model: from the empty projection to MaxHorizon
YearsToRetirement == (0 - 1 - ProjectionBuffer)..(MaxHorizon - ProjectionBuffer)

\* the fields of FIREMetrics the card computes with; an expected return of
\* 1200 is the monthly rate 1
FIREMetrics ==
    [currentAge : {32},
     yearsToRetirement : YearsToRetirement,
     currentSavings : {0, SavingsStep},
     monthlyContribution : {0, ContributionStep},
     expectedReturn : {0, 1200},
     targetRetirementAmount : {TargetStep, 1000 * TargetStep, 10000 * TargetStep}]

\* the whole number b to the power n >= 0
RECURSIVE IntPow(_, _)
IntPow(b, n) == IF n = 0 THEN 1 ELSE b * IntPow(b, n - 1)

\* Math.pow(base, n) for a whole n >= 0 and a base that is not negative
JsPow(base, n) ==
    IF n = 0 THEN Num(1)
    ELSE IF IsFin(base) THEN Fin(IntPow(base.n, n), IntPow(base.d, n))
    ELSE base

\* the monthly rate of calculateFutureValue
FireMonthlyRate(m) == JsDiv(JsDiv(Num(m.expectedReturn), Num(100)), Num(12))

CalculateFutureValue(m, years) ==
    LET r == FireMonthlyRate(m)
        n == years * 12
        pmt == Num(m.monthlyContribution)
        pv == Num(m.currentSavings)
        growth == JsPow(JsAdd(Num(1), r), n)
        futureValue == JsAdd(JsMul(pv, growth),
                             JsMul(pmt, JsDiv(JsSub(growth, Num(1)), r)))
    IN  JsRound(futureValue)

\* the last year offset of the loop
Horizon_NoBuffer(m) == m.yearsToRetirement

\* year <= metrics.yearsToRetirement + 5
Horizon(m) == m.yearsToRetirement + ProjectionBuffer

\* the object pushed for the year offset yr
ProjectionPoint(m, yr) ==
    [year |-> m.currentAge + yr,
     currentPath |-> CalculateFutureValue(m, yr),
     target |-> m.targetRetirementAmount,
     withExtra |-> JsAdd(CalculateFutureValue(m, yr),
                         JsMul(Num(500 * 12 * yr), JsPow(Fin(107, 100), yr)))]

\* Array.prototype.findIndex over the results of the test, element by
\* element: the 0-based index of the first that passes, -1 when none does
FindIndex(passes) ==
    IF \E i \in 1..Len(passes) : passes[i]
    THEN (CHOOSE i \in 1..Len(passes) :
              passes[i] /\ \A j \in 1..(i - 1) : ~passes[j]) - 1
    ELSE -1

\* the figures computed after the loop
FireFigures(m, data) ==
    LET yearsToFIRE ==
            FindIndex([i \in 1..Len(data) |->
                          JsLe(Num(m.targetRetirementAmount), data[i].currentPath)])
        yearsWithExtra ==
            FindIndex([i \in 1..Len(data) |->
                          JsLe(Num(m.targetRetirementAmount), data[i].withExtra)])
    IN  [yearsToFIRE |-> yearsToFIRE,
         currentProgress |->
            JsMul(JsDiv(Num(m.currentSavings), Num(m.targetRetirementAmount)), Num(100)),
         monthlyNeeded |->
            JsDiv(JsMul(Num(m.targetRetirementAmount), Fin(4, 100)), Num(12)),
         yearsWithExtra |-> yearsWithExtra,
         yearsSaved |-> yearsToFIRE - yearsWithExtra]

\* no figure computed yet
NoFigures ==
    [yearsToFIRE |-> 0, currentProgress |-> NaN, monthlyNeeded |-> NaN,
     yearsWithExtra |-> 0, yearsSaved |-> 0]

\* the badge: {yearsToFIRE} years to FIRE
BadgeText(figures) == <<figures.yearsToFIRE, "years to FIRE">>

\* the age in the strategy text: metrics.currentAge + yearsToFIRE
FireAge(m, figures) == m.currentAge + figures.yearsToFIRE

\* the card is not on the page
FireIdle ==
    /\ metrics = CHOOSE m \in FIREMetrics : TRUE
    /\ firePc = "idle"
    /\ year = 0
    /\ projectionData = <<>>
    /\ fire = NoFigures

----------------------------------------------------------------------------
(* GoalsTracker *)

\* priority: 'high' | 'medium' | 'low'
Priorities == {"high", "low"}

\* target dates a day before, 30 days after and 60 days after the clock's 0
TargetDates == {0 - TicksPerDay, 30 * TicksPerDay, 60 * TicksPerDay}

\* a goal short of its target, at its target and beyond it
GoalData ==
    [targetAmount : {2 * GoalStep},
     currentAmount : {GoalStep, 2 * GoalStep, 3 * GoalStep},
     targetDate : TargetDates,
     priority : Priorities]

\* a goal with its id: the position in props.goals
IdentifiedGoal(i, g) ==
    [id |-> i, targetAmount |-> g.targetAmount, currentAmount |-> g.currentAmount,
     targetDate |-> g.targetDate, priority |-> g.priority]

GoalList(data) == [i \in 1..Len(data) |-> IdentifiedGoal(i, data[i])]

\* const priorityOrder = { high: 0, medium: 1, low: 2 }
PriorityOrder(priority) ==
    CASE priority = "high" -> 0
      [] priority = "medium" -> 1
      [] priority = "low" -> 2

\* the comparator handed to Array.prototype.sort
CompareGoals(a, b) == PriorityOrder(a.priority) - PriorityOrder(b.priority)

\* x placed behind every goal that does not compare greater than it
RECURSIVE InsertGoal(_, _)
InsertGoal(x, s) ==
    IF s = <<>> THEN <<x>>
    ELSE IF CompareGoals(Head(s), x) <= 0
         THEN <<Head(s)>> \o InsertGoal(x, Tail(s))
         ELSE <<x>> \o s

\* Array.prototype.sort on a copy: a stable sort (ECMAScript 2019)
RECURSIVE SortGoals(_)
SortGoals(gs) ==
    IF gs = <<>> THEN <<>>
    ELSE InsertGoal(gs[Len(gs)], SortGoals(SubSeq(gs, 1, Len(gs) - 1)))

TotalGoalValue(gs) == SumSeq([i \in 1..Len(gs) |-> gs[i].targetAmount])

TotalSaved(gs) == SumSeq([i \in 1..Len(gs) |-> gs[i].currentAmount])

OverallProgress(gs) ==
    JsMul(JsDiv(Num(TotalSaved(gs)), Num(TotalGoalValue(gs))), Num(100))

\* date-fns differenceInDays(target, at): the number of full days between
\* the two instants, truncated towards zero
DifferenceInDays(target, at) ==
    IF target - at < 0
    THEN 0 - ((at - target) \div TicksPerDay)
    ELSE (target - at) \div TicksPerDay

\* the months of a division that has no lower limit
MonthsRemaining_Unclamped(goal, at) ==
    JsDiv(Num(DifferenceInDays(goal.targetDate, at)), Num(30))

\* Math.max(1, daysUntilTarget / 30), the clock reading at
MonthsRemaining(goal, at) ==
    JsMax(Num(1), JsDiv(Num(DifferenceInDays(goal.targetDate, at)), Num(30)))

\* goal.targetAmount - goal.currentAmount
Remaining(goal) == JsSub(Num(goal.targetAmount), Num(goal.currentAmount))

\* calculateMonthlyNeeded(goal) when new Date() reads at
CalculateMonthlyNeeded(goal, at) == JsDiv(Remaining(goal), MonthsRemaining(goal, at))

GoalProgress(goal) ==
    JsMul(JsDiv(Num(goal.currentAmount), Num(goal.targetAmount)), Num(100))

GetGoalColor(progress) ==
    IF JsLe(Num(100), progress) THEN "emerald"
    ELSE IF JsLe(Num(75), progress) THEN "blue"
    ELSE IF JsLe(Num(50), progress) THEN "amber"
    ELSE "rose"

\* progress >= 100 && ( Goal Achieved! )
GoalAchieved(progress) == JsLe(Num(100), progress)

\* the warning of a test that leaves the progress out
DeadlineApproaching_AnyProgress(progress, daysRemaining) == daysRemaining < 30

\* progress < 100 && daysRemaining < 30 && ( Deadline approaching )
DeadlineApproaching(progress, daysRemaining) ==
    JsLt(progress, Num(100)) /\ daysRemaining < 30

\* what the card of a goal shows
GoalCard(goal, monthly, daysRemaining) ==
    LET progress == GoalProgress(goal)
    IN  [goal |-> goal,
         progress |-> progress,
         color |-> GetGoalColor(progress),
         remaining |-> Remaining(goal),
         monthlyNeeded |-> monthly,
         daysRemaining |-> daysRemaining,
         achieved |-> GoalAchieved(progress),
         approaching |-> DeadlineApproaching(progress, daysRemaining)]

\* the component called with gs when the clock reads at: the sort and the
\* totals are taken, no card is rendered yet
StartGoals(gs, at) ==
    /\ goals = gs
    /\ now = at
    /\ sortedGoals = SortGoals(gs)
    /\ totalGoalValue = TotalGoalValue(gs)
    /\ totalSaved = TotalSaved(gs)
    /\ overallProgress = OverallProgress(gs)
    /\ goalsPc = IF gs = <<>> THEN "done" ELSE "monthly"
    /\ goalIdx = 1
    /\ monthlyNeeded = Num(0)
    /\ goalCards = <<>>
    /\ monthlyTotal = Num(0)

\* the tracker is not on the page
GoalsIdle ==
    /\ goals = <<>>
    /\ now = 0
    /\ sortedGoals = <<>>
    /\ totalGoalValue = 0
    /\ totalSaved = 0
    /\ overallProgress = NaN
    /\ goalsPc = "idle"
    /\ goalIdx = 1
    /\ monthlyNeeded = Num(0)
    /\ goalCards = <<>>
    /\ monthlyTotal = Num(0)

\* const monthlyNeeded = calculateMonthlyNeeded(goal), which reads the clock
CalculateCardMonthly ==
    /\ goalsPc = "monthly"
    /\ monthlyNeeded' = CalculateMonthlyNeeded(sortedGoals[goalIdx], now)
    /\ goalsPc' = "days"
    /\ UNCHANGED <<goals, now, goalIdx, sortedGoals, totalGoalValue, totalSaved,
                   overallProgress, goalCards, monthlyTotal>>
    /\ UNCHANGED <<cardVars, healthVars, fireVars>>

\* const daysRemaining = differenceInDays(goal.targetDate, new Date()), a
\* second reading of the clock, and the card of the goal
RenderGoalCard ==
    /\ goalsPc = "days"
    /\ goalCards' = Append(goalCards,
           GoalCard(sortedGoals[goalIdx], monthlyNeeded,
                    DifferenceInDays(sortedGoals[goalIdx].targetDate, now)))
    /\ IF goalIdx < Len(sortedGoals)
       THEN goalIdx' = goalIdx + 1 /\ goalsPc' = "monthly"
       ELSE goalIdx' = 1 /\ goalsPc' = "sum"
    /\ UNCHANGED <<goals, now, sortedGoals, totalGoalValue, totalSaved,
                   overallProgress, monthlyNeeded, monthlyTotal>>
    /\ UNCHANGED <<cardVars, healthVars, fireVars>>

\* one step of sortedGoals.reduce((sum, goal) => sum +
\* calculateMonthlyNeeded(goal), 0): the clock is read once more
AddMonthlyNeeded ==
    /\ goalsPc = "sum"
    /\ monthlyTotal' = JsAdd(monthlyTotal,
                             CalculateMonthlyNeeded(sortedGoals[goalIdx], now))
    /\ IF goalIdx < Len(sortedGoals)
       THEN goalIdx' = goalIdx + 1 /\ goalsPc' = "sum"
       ELSE goalIdx' = goalIdx /\ goalsPc' = "done"
    /\ UNCHANGED <<goals, now, sortedGoals, totalGoalValue, totalSaved,
                   overallProgress, monthlyNeeded, goalCards>>
    /\ UNCHANGED <<cardVars, healthVars, fireVars>>

\* the wall clock moves on while the component is being rendered
Tick ==
    /\ goalsPc \in {"monthly", "days", "sum"}
    /\ now < MaxClock
    /\ now' = now + 1
    /\ UNCHANGED <<goals, goalsPc, goalIdx, sortedGoals, totalGoalValue, totalSaved,
                   overallProgress, monthlyNeeded, goalCards, monthlyTotal>>
    /\ UNCHANGED <<cardVars, healthVars, fireVars>>

----------------------------------------------------------------------------
(* FinancialHealthScore *)

Income == [amount : {IncomeStep}, isActive : BOOLEAN]
Expense == [amount : {ExpenseStep}, isEssential : BOOLEAN]
Asset == [value : {AssetStep}]
\* the health score reads only the balance of a debt
ProfileDebtData == [balance : Balances, interestRate : {600}, minimumPayment : {PayStep}]
\* creditScore?: number
CreditScores ==
    {[present |-> FALSE, value |-> 0], [present |-> TRUE, value |-> 720],
     [present |-> TRUE, value |-> 850]}
\* target and actual percentage of the needs category
BudgetAllocations == [needs : {40, 50}, actual : [needs : {50, 100}]]

\* the profile without a single entry, a zero target and no credit score
EmptyProfile ==
    [incomes |-> <<>>, expenses |-> <<>>, debts |-> <<>>, assets |-> <<>>,
     budgetAllocation |-> [needs |-> 50, actual |-> [needs |-> 50]],
     emergencyFundTarget |-> 0, emergencyFundCurrent |-> 0,
     creditScore |-> [present |-> FALSE, value |-> 0]]

\* nothing computed yet
NotRendered ==
    [rendered |-> FALSE, totalIncome |-> 0, totalExpenses |-> 0, totalDebt |-> 0,
     totalAssets |-> 0,
     scores |-> [emergencyFund |-> NaN, debtToIncome |-> NaN, savingsRate |-> NaN,
                 netWorth |-> NaN, creditScore |-> NaN, budgetAdherence |-> NaN],
     overallScore |-> NaN, color |-> "", label |-> ""]

\* the total that counts every income, active or not
TotalIncome_AllIncomes(incomes) ==
    SumSeq([i \in 1..Len(incomes) |-> incomes[i].amount])

\* reduce((sum, inc) => inc.isActive ? sum + inc.amount : sum, 0)
TotalIncome(incomes) ==
    SumSeq([i \in 1..Len(incomes) |->
               IF incomes[i].isActive THEN incomes[i].amount ELSE 0])

TotalExpenses(expenses) == SumSeq([i \in 1..Len(expenses) |-> expenses[i].amount])

TotalAssets(assets) == SumSeq([i \in 1..Len(assets) |-> assets[i].value])

\* Math.min(100, (emergencyFundCurrent / emergencyFundTarget) * 100)
EmergencyFundScore(p) ==
    JsMin(Num(100), JsMul(JsDiv(Num(p.emergencyFundCurrent),
                                Num(p.emergencyFundTarget)), Num(100)))

\* Math.max(0, 100 - ((totalDebt / (totalIncome * 12)) * 100))
DebtToIncomeScore(p) ==
    JsMax(Num(0), JsSub(Num(100),
        JsMul(JsDiv(Num(TotalDebt(p.debts)),
                    JsMul(Num(TotalIncome(p.incomes)), Num(12))), Num(100))))

\* Math.min(100, ((totalIncome - totalExpenses) / totalIncome) * 100 * 5)
SavingsRateScore(p) ==
    JsMin(Num(100),
        JsMul(JsMul(JsDiv(JsSub(Num(TotalIncome(p.incomes)), Num(TotalExpenses(p.expenses))),
                          Num(TotalIncome(p.incomes))),
                    Num(100)), Num(5)))

\* Math.min(100, (totalAssets / Math.max(1, totalDebt)) * 20)
NetWorthScore(p) ==
    JsMin(Num(100), JsMul(JsDiv(Num(TotalAssets(p.assets)),
                                JsMax(Num(1), Num(TotalDebt(p.debts)))), Num(20)))

\* the credit score NaN factor of a profile without the field:
\* (undefined / 850) * 100
CreditScoreFactor_NoDefault(p) ==
    IF p.creditScore.present
    THEN JsMul(JsDiv(Num(p.creditScore.value), Num(850)), Num(100))
    ELSE NaN

\* profile.creditScore ? (profile.creditScore / 850) * 100 : 50
\* (undefined and 0 are falsy)
CreditScoreFactor(p) ==
    IF p.creditScore.present /\ p.creditScore.value # 0
    THEN JsMul(JsDiv(Num(p.creditScore.value), Num(850)), Num(100))
    ELSE Num(50)

\* 100 - Math.abs(actual.needs - needs) * 2
BudgetAdherenceScore(p) ==
    JsSub(Num(100),
          JsMul(Num(Abs(p.budgetAllocation.actual.needs - p.budgetAllocation.needs)),
                Num(2)))

Scores(p) ==
    [emergencyFund |-> EmergencyFundScore(p),
     debtToIncome |-> DebtToIncomeScore(p),
     savingsRate |-> SavingsRateScore(p),
     netWorth |-> NetWorthScore(p),
     creditScore |-> CreditScoreFactor(p),
     budgetAdherence |-> BudgetAdherenceScore(p)]

\* the six factors of the weighted average
Weights ==
    [emergencyFund |-> Fin(25, 100), debtToIncome |-> Fin(20, 100),
     savingsRate |-> Fin(20, 100), netWorth |-> Fin(15, 100),
     creditScore |-> Fin(10, 100), budgetAdherence |-> Fin(10, 100)]

\* the average that gives the emergency fund the weight 0.20 of its neighbours
OverallScore_EmergencyFifth(scores) ==
    JsRound(JsAdd(JsAdd(JsAdd(JsAdd(JsAdd(
        JsMul(scores.emergencyFund, Fin(20, 100)),
        JsMul(scores.debtToIncome, Weights.debtToIncome)),
        JsMul(scores.savingsRate, Weights.savingsRate)),
        JsMul(scores.netWorth, Weights.netWorth)),
        JsMul(scores.creditScore, Weights.creditScore)),
        JsMul(scores.budgetAdherence, Weights.budgetAdherence)))

\* the weighted average of the six scores, rounded
OverallScore(scores) ==
    JsRound(JsAdd(JsAdd(JsAdd(JsAdd(JsAdd(
        JsMul(scores.emergencyFund, Weights.emergencyFund),
        JsMul(scores.debtToIncome, Weights.debtToIncome)),
        JsMul(scores.savingsRate, Weights.savingsRate)),
        JsMul(scores.netWorth, Weights.netWorth)),
        JsMul(scores.creditScore, Weights.creditScore)),
        JsMul(scores.budgetAdherence, Weights.budgetAdherence)))

\* the color whose amber band starts at the label's lowest cut-off
GetScoreColor_AmberFromForty(score) ==
    IF JsLe(Num(80), score) THEN "emerald"
    ELSE IF JsLe(Num(40), score) THEN "amber"
    ELSE "rose"

GetScoreColor(score) ==
    IF JsLe(Num(80), score) THEN "emerald"
    ELSE IF JsLe(Num(60), score) THEN "amber"
    ELSE "rose"

\* the label whose bands exclude their lower cut-off
GetScoreLabel_Strict(score) ==
    IF JsLt(Num(80), score) THEN "Excellent"
    ELSE IF JsLt(Num(60), score) THEN "Good"
    ELSE IF JsLt(Num(40), score) THEN "Fair"
    ELSE "Needs Improvement"

GetScoreLabel(score) ==
    IF JsLe(Num(80), score) THEN "Excellent"
    ELSE IF JsLe(Num(60), score) THEN "Good"
    ELSE IF JsLe(Num(40), score) THEN "Fair"
    ELSE "Needs Improvement"

HealthScore(p) ==
    LET scores == Scores(p)
        overallScore == OverallScore(scores)
    IN  [rendered |-> TRUE,
         totalIncome |-> TotalIncome(p.incomes),
         totalExpenses |-> TotalExpenses(p.expenses),
         totalDebt |-> TotalDebt(p.debts),
         totalAssets |-> TotalAssets(p.assets),
         scores |-> scores,
         overallScore |-> overallScore,
         color |-> GetScoreColor(overallScore),
         label |-> GetScoreLabel(overallScore)]

\* the profiles of the model: up to MaxIncomes incomes, and at most one
\* expense, one debt and one asset, each total being a sum over the list
Profiles ==
    UNION {UNION {UNION {UNION {
        [incomes : {incomes}, expenses : {expenses},
         debts : {DebtList(debtData)}, assets : {assets},
         budgetAllocation : BudgetAllocations,
         emergencyFundTarget : {0, 2 * EmergencyFundStep},
         emergencyFundCurrent : {0, EmergencyFundStep, 2 * EmergencyFundStep},
         creditScore : CreditScores] :
        incomes \in UNION {[1..n -> Income] : n \in 0..MaxIncomes}} :
        expenses \in UNION {[1..n -> Expense] : n \in 0..1}} :
        debtData \in UNION {[1..n -> ProfileDebtData] : n \in 0..1}} :
        assets \in UNION {[1..n -> Asset] : n \in 0..1}}

\* DashboardPage hands the profile to FinancialHealthScore and the profile's
\* debts to DebtStrategyCard; the health score is not computed yet. No
\* quotient of logarithms of ProfileDebtData is an integer, so the rounding
\* direction is left at FALSE.
InitHealth ==
    /\ profile \in Profiles
    /\ FirstRender(profile.debts, FALSE)
    /\ health = NotRendered
    /\ FireIdle
    /\ GoalsIdle

\* the one render of FinancialHealthScore
RenderHealthScore ==
    /\ ~health.rendered
    /\ health' = HealthScore(profile)
    /\ UNCHANGED <<profile, cardVars, fireVars, goalsVars>>

NextHealth == RenderHealthScore

SpecHealth == InitHealth /\ [][NextHealth]_vars

----------------------------------------------------------------------------
(* FIREProgressCard on its own *)

\* the render has the metrics and starts the loop: let year = 0
InitFire ==
    /\ FirstRender(<<>>, FALSE)
    /\ profile = EmptyProfile
    /\ health = NotRendered
    /\ metrics \in FIREMetrics
    /\ firePc = "loop"
    /\ year = 0
    /\ projectionData = <<>>
    /\ fire = NoFigures
    /\ GoalsIdle

\* one pass of the loop body: push the point of this year, year++
PushPoint ==
    /\ firePc = "loop"
    /\ year <= Horizon(metrics)
    /\ projectionData' = Append(projectionData, ProjectionPoint(metrics, year))
    /\ year' = year + 1
    /\ UNCHANGED <<metrics, firePc, fire, cardVars, healthVars, goalsVars>>

\* the loop condition fails: the figures are computed from the projection
FinishProjection ==
    /\ firePc = "loop"
    /\ ~(year <= Horizon(metrics))
    /\ fire' = FireFigures(metrics, projectionData)
    /\ firePc' = "done"
    /\ UNCHANGED <<metrics, year, projectionData, cardVars, healthVars, goalsVars>>

NextFire == PushPoint \/ FinishProjection

SpecFire == InitFire /\ [][NextFire]_vars

----------------------------------------------------------------------------
(* GoalsTracker on its own *)

InitGoals ==
    /\ \E n \in 0..MaxGoals : \E data \in [1..n -> GoalData] :
          StartGoals(GoalList(data), 0)
    /\ FirstRender(<<>>, FALSE)
    /\ profile = EmptyProfile
    /\ health = NotRendered
    /\ FireIdle

NextGoals == CalculateCardMonthly \/ RenderGoalCard \/ AddMonthlyNeeded \/ Tick

SpecGoals == InitGoals /\ [][NextGoals]_vars

----------------------------------------------------------------------------
(* DebtStrategyCard on its own *)

Init ==
    /\ \E n \in 0..MaxDebts : \E data \in [1..n -> DebtData] : \E up \in BOOLEAN :
          FirstRender(DebtList(data), up)
    /\ profile = EmptyProfile
    /\ health = NotRendered
    /\ FireIdle
    /\ GoalsIdle

Next == SelectAvalanche \/ SelectSnowball

Spec == Init /\ [][Next]_vars

----------------------------------------------------------------------------
(* Claims about the debt payoff plan *)

PlanIndexes == 1..Len(payoffPlan)

\* the payment made on a plan entry's debt
EntryPayment(e) == e.debt.minimumPayment + e.extraPayment

\* r > 0 and p <= balance * r, with r = interestRate / 1200, in integers
NeverAmortizes(e) ==
    /\ e.debt.interestRate > 0
    /\ EntryPayment(e) * 1200 <= e.debt.balance * e.debt.interestRate

\* r > 0 and p > balance * r
Amortizes(e) ==
    /\ e.debt.interestRate > 0
    /\ EntryPayment(e) * 1200 > e.debt.balance * e.debt.interestRate

\* tagged outcomes, which are not numbers
NonConvergent == [k |-> "NonConvergent", n |-> 0, d |-> 1]
InvalidInput == [k |-> "InvalidInput", n |-> 0, d |-> 1]

C2_ZeroRateCeil ==
    \A i \in PlanIndexes :
        LET e == payoffPlan[i]
        IN  (e.debt.interestRate = 0 /\ EntryPayment(e) > 0) =>
                e.monthsToPayoff = Num(CeilDiv(e.debt.balance, EntryPayment(e)))

\* the month-by-month simulation: balance := balance * (1 + r) - p until the
\* balance is <= 0; the number of months it takes
RECURSIVE SimulateMonths(_, _, _, _)
SimulateMonths(balance, r, p, months) ==
    IF JsLe(balance, Num(0)) THEN months
    ELSE SimulateMonths(JsSub(JsMul(balance, JsAdd(Num(1), r)), p), r, p, months + 1)

SimulatedMonths(e) ==
    SimulateMonths(Num(e.debt.balance), Fin(e.debt.interestRate, 1200),
                   Num(EntryPayment(e)), 0)

\* C3: for a convergent debt (r > 0, p > balance * r) monthsToPayoff is a
\* finite number that differs by at most 1 from the number of months of the
\* month-by-month simulation.
C3_ClosedFormMatchesSimulation ==
    \A i \in PlanIndexes :
        LET e == payoffPlan[i]
        IN  Amortizes(e) =>
                /\ IsFin(e.monthsToPayoff)
                /\ e.monthsToPayoff.d = 1
                /\ Abs(e.monthsToPayoff.n - SimulatedMonths(e)) <= 1

\* one plan holds a debt paid off in several months, as simulated, and a debt
\* whose closed form lands on an integer and comes out one month above
C3_Witness ==
    /\ \E i \in PlanIndexes :
          /\ Amortizes(payoffPlan[i])
          /\ SimulatedMonths(payoffPlan[i]) >= 3
          /\ payoffPlan[i].monthsToPayoff = Num(SimulatedMonths(payoffPlan[i]))
    /\ \E i \in PlanIndexes :
          /\ Amortizes(payoffPlan[i])
          /\ payoffPlan[i].monthsToPayoff = Num(SimulatedMonths(payoffPlan[i]) + 1)

C5_PlanOrdered ==
    \A i, j \in PlanIndexes :
        i < j =>
            /\ strategy = "avalanche" =>
                  payoffPlan[i].debt.interestRate >= payoffPlan[j].debt.interestRate
            /\ strategy = "snowball" =>
                  payoffPlan[i].debt.balance <= payoffPlan[j].debt.balance

\* three debts of three different rates, given out of order, under avalanche
C5_Witness ==
    /\ strategy = "avalanche"
    /\ Len(debts) = 3
    /\ debts[1].interestRate > debts[3].interestRate
    /\ debts[3].interestRate > debts[2].interestRate
    /\ payoffPlan[2].debt = debts[3]
    /\ payoffPlan[3].debt = debts[2]

\* whether two debts tie on the sort key of the strategy
TieOnKey(a, b) ==
    IF strategy = "avalanche" THEN a.interestRate = b.interestRate
    ELSE a.balance = b.balance

\* C6: two debts that tie on the sort key stand in the plan in the order they
\* have in the input list (debts are named by their input position).
C6_TiesKeepInputOrder ==
    \A i, j \in PlanIndexes :
        (i < j /\ TieOnKey(payoffPlan[i].debt, payoffPlan[j].debt)) =>
            payoffPlan[i].debt.name < payoffPlan[j].debt.name

\* the first and last input debts tie and the debt between them sorts before both
C6_Witness ==
    /\ Len(debts) = 3
    /\ TieOnKey(debts[1], debts[3])
    /\ ~TieOnKey(debts[1], debts[2])
    /\ payoffPlan[1].debt = debts[2]
    /\ payoffPlan[2].debt = debts[1]
    /\ payoffPlan[3].debt = debts[3]

\* the extra payments of the plan, summed
RECURSIVE SumExtra(_)
SumExtra(is) ==
    IF is = {} THEN 0
    ELSE LET i == CHOOSE x \in is : TRUE
         IN  payoffPlan[i].extraPayment + SumExtra(is \ {i})

\* C7: in the plan of a non-empty debt list the first debt of the sorted order
\* is given the whole extra budget and every other debt 0, so the extra
\* payments sum to the budget.
C7_ExtraToFirstOnly ==
    Len(debts) >= 1 =>
        /\ payoffPlan[1].extraPayment = ExtraPayment
        /\ payoffPlan[1].debt = sortedDebts[1]
        /\ \A i \in PlanIndexes : i > 1 => payoffPlan[i].extraPayment = 0
        /\ SumExtra(PlanIndexes) = ExtraPayment

\* three debts under snowball, the first of the plan not the first of the
\* input, and it never pays off even with the extra payment
C7_Witness ==
    /\ strategy = "snowball"
    /\ Len(debts) = 3
    /\ payoffPlan[1].debt # debts[1]
    /\ payoffPlan[1].extraPayment = ExtraPayment
    /\ payoffPlan[3].monthsToPayoff = PosInf
    /\ IsFin(payoffPlan[1].monthsToPayoff)

\* whether a plan entry's payoff computation failed: no finite number of months
Failed(e) == ~IsFin(e.monthsToPayoff)

\* the input list with debt i paying at least payment a month
WithMinimumPayment(i, payment) == [debts EXCEPT ![i].minimumPayment = payment]

\* a minimum payment that exceeds any month's interest on the debt's balance
\* (the monthly rates of the model are at most 1)
RescuePayment(debt) == 2 * debt.balance + PayStep

\* the plan of the input list in which debt i pays RescuePayment a month
RescuedPlan(i) ==
    PayoffPlan(SortDebts(WithMinimumPayment(i, RescuePayment(debts[i])), strategy), ulpUp)

\* C8: a failed payoff computation for one debt does not keep the plan from
\* being produced: the plan has one entry for every input debt, and every other
\* debt's months-to-payoff is what it is when the failing debt pays enough to
\* converge.
C8_FailureStaysLocal ==
    /\ Len(payoffPlan) = Len(debts)
    /\ {payoffPlan[i].debt : i \in PlanIndexes} = {debts[i] : i \in 1..Len(debts)}
    /\ \A i \in PlanIndexes :
          Failed(payoffPlan[i]) =>
              \A rescued \in {RescuedPlan(payoffPlan[i].debt.name)} :
                  /\ Len(rescued) = Len(payoffPlan)
                  /\ \A j \in PlanIndexes \ {i} : rescued[j] = payoffPlan[j]

\* the debt given the extra payment never pays off, the two debts behind it do,
\* in a finite number of months, and with a higher minimum payment the first
\* debt would pay off too
C8_Witness ==
    /\ Len(payoffPlan) = 3
    /\ payoffPlan[1].monthsToPayoff = PosInf
    /\ payoffPlan[1].debt.interestRate > 0
    /\ IsFin(payoffPlan[2].monthsToPayoff)
    /\ IsFin(payoffPlan[3].monthsToPayoff)
    /\ payoffPlan[2].monthsToPayoff.n > 0
    /\ IsFin(CalculatePayoffTime(
          [payoffPlan[1].debt EXCEPT !.minimumPayment = 2 * payoffPlan[1].debt.balance + PayStep],
          ExtraPayment, ulpUp))

\* sum of f over the debts of ds, from the head
RECURSIVE SumRateBalance(_)
SumRateBalance(ds) ==
    IF ds = <<>> THEN 0
    ELSE Head(ds).interestRate * Head(ds).balance + SumRateBalance(Tail(ds))

RECURSIVE SumBalance(_)
SumBalance(ds) == IF ds = <<>> THEN 0 ELSE Head(ds).balance + SumBalance(Tail(ds))

RECURSIVE SumMinimum(_)
SumMinimum(ds) == IF ds = <<>> THEN 0 ELSE Head(ds).minimumPayment + SumMinimum(Tail(ds))

DebtRates == {debts[i].interestRate : i \in 1..Len(debts)}

\* C9: total balance is the sum of the balances, the minimum-payment sum the
\* sum of the minimum payments, the weighted APR sum(balance * rate) /
\* sum(balance), over every input debt; with a positive total balance the
\* weighted APR lies between the smallest and the largest rate of the list.
C9_Aggregates ==
    /\ totalDebt = SumBalance(debts)
    /\ totalMinimumPayment = SumMinimum(debts)
    /\ SumBalance(debts) > 0 =>
          /\ IsFin(weightedAPR)
          /\ weightedAPR.n * SumBalance(debts) = SumRateBalance(debts) * weightedAPR.d
          /\ \A r \in DebtRates :
                (\A q \in DebtRates : r <= q) => r * weightedAPR.d <= weightedAPR.n
          /\ \A r \in DebtRates :
                (\A q \in DebtRates : r >= q) => weightedAPR.n <= r * weightedAPR.d

\* three debts of three rates, one of them with balance 0, and a weighted APR
\* that is none of the rates
C9_Witness ==
    /\ Len(debts) = 3
    /\ Cardinality(DebtRates) = 3
    /\ \E i \in 1..3 : debts[i].balance = 0
    /\ totalDebt > 0
    /\ IsFin(weightedAPR)
    /\ \A r \in DebtRates : weightedAPR # Num(r)

\* the divisors of the health score that are zero in the profile
ZeroIncome == TotalIncome(profile.incomes) <= 0
ZeroTarget == profile.emergencyFundTarget <= 0

\* C10 as stated: a non-positive divisor (total active income in the
\* debt-to-income and savings-rate scores, the emergency-fund target in the
\* emergency-fund score, the total balance in the weighted APR) gives the
\* tagged outcome InvalidInput, and no number, for the sub-score, for the
\* composite score and for the APR.
C10_ZeroDivisorInvalidInput ==
    /\ totalDebt <= 0 => weightedAPR = InvalidInput
    /\ health.rendered =>
          /\ ZeroIncome => /\ health.scores.debtToIncome = InvalidInput
                           /\ health.scores.savingsRate = InvalidInput
          /\ ZeroTarget => health.scores.emergencyFund = InvalidInput
          /\ ZeroIncome \/ ZeroTarget => health.overallScore = InvalidInput

----------------------------------------------------------------------------
(* Claims about the health score *)

\* a profile of the data model: amounts are not negative, total active
\* income and the emergency-fund target are positive, the budget
\* percentages lie in 0..100 and a credit score lies in 300..850
ValidProfile(p) ==
    /\ TotalIncome(p.incomes) > 0
    /\ p.emergencyFundTarget > 0
    /\ p.emergencyFundCurrent >= 0
    /\ \A i \in 1..Len(p.incomes) : p.incomes[i].amount >= 0
    /\ \A i \in 1..Len(p.expenses) : p.expenses[i].amount >= 0
    /\ \A i \in 1..Len(p.debts) : p.debts[i].balance >= 0
    /\ \A i \in 1..Len(p.assets) : p.assets[i].value >= 0
    /\ p.budgetAllocation.needs \in 0..100
    /\ p.budgetAllocation.actual.needs \in 0..100
    /\ p.creditScore.present => p.creditScore.value \in 300..850

\* a number of [0, 100]
InUnitRange(x) == IsFin(x) /\ 0 <= x.n /\ x.n <= 100 * x.d

ScoreNames ==
    {"emergencyFund", "debtToIncome", "savingsRate", "netWorth", "creditScore",
     "budgetAdherence"}

\* C11 as stated: for a profile of the data model each of the six
\* sub-scores lies in [0, 100]; savingsRate is 0 when expenses exceed income
\* and budgetAdherence is 0 when the needs percentage is more than 50 points
\* off its target.
C11_SubScoresInRange ==
    health.rendered /\ ValidProfile(profile) =>
        /\ \A name \in ScoreNames : InUnitRange(health.scores[name])
        /\ health.totalExpenses > health.totalIncome => health.scores.savingsRate = Num(0)
        /\ Abs(profile.budgetAllocation.actual.needs - profile.budgetAllocation.needs) > 50
              => health.scores.budgetAdherence = Num(0)

\* C12 as stated: for a profile of the data model the composite score is an
\* integer of [0, 100].
C12_CompositeInRange ==
    health.rendered /\ ValidProfile(profile) =>
        /\ InUnitRange(health.overallScore)
        /\ health.overallScore.d = 1

\* w hundredths of a score
Hundredths(score, w) == JsDiv(JsMul(score, Num(w)), Num(100))

\* the weighted sum of the scores with the weights written in hundredths
PercentWeightedSum(scores) ==
    JsAdd(JsAdd(JsAdd(JsAdd(JsAdd(
        Hundredths(scores.emergencyFund, 25),
        Hundredths(scores.debtToIncome, 20)),
        Hundredths(scores.savingsRate, 20)),
        Hundredths(scores.netWorth, 15)),
        Hundredths(scores.creditScore, 10)),
        Hundredths(scores.budgetAdherence, 10))

AllScoresEqual(scores) ==
    \A name \in ScoreNames : JsEq(scores[name], scores.emergencyFund)

\* C13: the composite score is the rounded sum of 0.25 emergencyFund,
\* 0.20 debtToIncome, 0.20 savingsRate, 0.15 netWorth, 0.10 creditScore and
\* 0.10 budgetAdherence; the six weights sum to exactly 1, so six equal
\* sub-scores s give the composite score round(s).
C13_WeightedAverage ==
    /\ JsAdd(JsAdd(JsAdd(JsAdd(JsAdd(Weights.emergencyFund, Weights.debtToIncome),
             Weights.savingsRate), Weights.netWorth), Weights.creditScore),
             Weights.budgetAdherence) = Num(1)
    /\ health.rendered =>
          /\ health.overallScore = JsRound(PercentWeightedSum(health.scores))
          /\ AllScoresEqual(health.scores) =>
                health.overallScore = JsRound(health.scores.emergencyFund)

C13_Witness ==
    /\ health.rendered
    /\ AllScoresEqual(health.scores)
    /\ health.overallScore = Num(100)
    /\ \A name \in ScoreNames : health.scores[name] = Num(100)

\* the band of an integer score
BandLabel(score) ==
    IF score >= 80 THEN "Excellent"
    ELSE IF score >= 60 THEN "Good"
    ELSE IF score >= 40 THEN "Fair"
    ELSE "Needs Improvement"

ScoreLabels == {"Excellent", "Good", "Fair", "Needs Improvement"}

\* the scores the label function is tried on: the ends of the scale, the
\* cut-offs and their neighbours
LabelledScores == {0, 100} \cup UNION {{c - 1, c, c + 1} : c \in {40, 60, 80}}

\* C14: the label is a total function of the composite score with four
\* bands: 80 and more is Excellent, 60 to less than 80 Good, 40 to less than
\* 60 Fair, less than 40 Needs Improvement; every score has exactly one
\* label, the score on display included.
C14_LabelBands ==
    health.rendered =>
        /\ \A score \in LabelledScores :
              /\ GetScoreLabel(Num(score)) = BandLabel(score)
              /\ Cardinality({l \in ScoreLabels : l = GetScoreLabel(Num(score))}) = 1
        /\ health.label \in ScoreLabels
        /\ health.label = GetScoreLabel(health.overallScore)
        /\ IsFin(health.overallScore) /\ health.overallScore.d = 1 =>
              health.label = BandLabel(health.overallScore.n)

C14_Witness ==
    /\ health.rendered
    /\ health.overallScore = Num(80)
    /\ health.label = "Excellent"

\* the profile with another credit score field
WithCreditScore(p, cs) == [p EXCEPT !.creditScore = cs]

\* C15: the credit sub-score is creditScore / 850 * 100 when the profile has
\* a credit score and 50 when it has none; a profile without one gets a
\* finite credit sub-score and the other five sub-scores it would get with a
\* credit score.
C15_CreditScoreDefault ==
    health.rendered =>
        /\ profile.creditScore.present =>
              /\ IsFin(health.scores.creditScore)
              /\ health.scores.creditScore.n * 850 =
                    profile.creditScore.value * 100 * health.scores.creditScore.d
        /\ ~profile.creditScore.present =>
              /\ health.scores.creditScore = Num(50)
              /\ \A cs \in {c \in CreditScores : c.present} :
                    \A name \in ScoreNames \ {"creditScore"} :
                        Scores(WithCreditScore(profile, cs))[name] = health.scores[name]
              /\ ValidProfile(profile) => IsFin(health.overallScore)

C15_Witness ==
    /\ health.rendered
    /\ ~profile.creditScore.present
    /\ ValidProfile(profile)
    /\ health.scores.creditScore = Num(50)
    /\ IsFin(health.overallScore)

\* the incomes with the inactive ones left out
ActiveIncomes(incomes) == SelectSeq(incomes, LAMBDA inc : inc.isActive)

InactiveIncome(amount) == [amount |-> amount, isActive |-> FALSE]

\* amounts an inactive income is given
OtherAmounts == {0, 2 * IncomeStep + 1}

\* what the score shows, but for the totals the score also stores
Shown(h) == [scores |-> h.scores, overallScore |-> h.overallScore,
             totalIncome |-> h.totalIncome, label |-> h.label, color |-> h.color]

\* C16: the income total counts the active incomes only: removing the
\* inactive incomes, adding one, or changing the amount of one leaves the
\* total income, the six sub-scores and the composite score as they are; the
\* expense total counts every expense, essential or not.
C16_InactiveIncomeIgnored ==
    health.rendered =>
        /\ health.totalIncome = TotalIncome_AllIncomes(ActiveIncomes(profile.incomes))
        /\ Shown(HealthScore([profile EXCEPT !.incomes = ActiveIncomes(@)])) = Shown(health)
        /\ \A amount \in OtherAmounts :
              /\ Shown(HealthScore([profile EXCEPT
                        !.incomes = Append(@, InactiveIncome(amount))])) = Shown(health)
              /\ \A i \in 1..Len(profile.incomes) :
                    ~profile.incomes[i].isActive =>
                        Shown(HealthScore([profile EXCEPT
                            !.incomes[i].amount = amount])) = Shown(health)
        /\ health.totalExpenses = Len(profile.expenses) * ExpenseStep

C16_Witness ==
    /\ health.rendered
    /\ \E i, j \in 1..Len(profile.incomes) :
          profile.incomes[i].isActive /\ ~profile.incomes[j].isActive
    /\ \E i \in 1..Len(profile.expenses) : ~profile.expenses[i].isEssential
    /\ health.totalIncome = IncomeStep
    /\ health.totalExpenses = ExpenseStep

----------------------------------------------------------------------------
(* Claims about the growth projection *)

\* the year offsets of the points pushed so far
YearOffsets == 0..(Len(projectionData) - 1)

\* the point of a year offset
PointAt(yr) == projectionData[yr + 1]

\* C17 as stated: with an expected return of 0 the projected value at year
\* offset y is exactly currentSavings + monthlyContribution * 12 * y.
C17_ZeroReturnLinear ==
    metrics.expectedReturn = 0 =>
        \A yr \in YearOffsets :
            PointAt(yr).currentPath =
                Num(metrics.currentSavings + metrics.monthlyContribution * 12 * yr)

\* the year offsets whose projected value reaches the target
ReachingOffsets(field) ==
    {yr \in YearOffsets :
        JsLe(Num(metrics.targetRetirementAmount), PointAt(yr)[field])}

\* the least element of a non-empty set of year offsets
Least(offsets) == CHOOSE yr \in offsets : \A other \in offsets : yr <= other

\* C18 as stated: years to target is the least year offset of the
\* projection whose value is at least the target; when no year offset of
\* the horizon reaches the target the outcome is TargetUnreached and no
\* number: none is shown in the badge, added to the age or subtracted.
C18_TargetUnreachedReported ==
    firePc = "done" =>
        /\ ReachingOffsets("currentPath") # {} =>
              fire.yearsToFIRE = Least(ReachingOffsets("currentPath"))
        /\ ReachingOffsets("withExtra") # {} =>
              fire.yearsWithExtra = Least(ReachingOffsets("withExtra"))
        /\ ReachingOffsets("currentPath") = {} =>
              /\ fire.yearsToFIRE \notin Int
              /\ BadgeText(fire)[1] \notin Int
        /\ ReachingOffsets("withExtra") = {} => fire.yearsWithExtra \notin Int

\* the metrics with the extra monthly amount added to the contribution
WithExtraContribution(m, extra) == [m EXCEPT !.monthlyContribution = @ + extra]

\* C19 as stated: at every year offset the value of the scenario with the
\* extra 500 a month is the future-value formula evaluated with the
\* contribution monthlyContribution + 500 and the same other parameters.
C19_ExtraScenarioSameFormula ==
    \A yr \in YearOffsets :
        PointAt(yr).withExtra =
            CalculateFutureValue(WithExtraContribution(metrics, 500), yr)

\* the number of points of the whole projection: year offsets 0..horizon
PointCount == IF metrics.yearsToRetirement + ProjectionBuffer < 0 THEN 0
              ELSE metrics.yearsToRetirement + ProjectionBuffer + 1

\* the points pushed so far are those of the year offsets 0, 1, ... in
\* this order, one for each year the loop has passed, each the point of its
\* own offset, and never more than the horizon has; the finished projection
\* has them all
PointsByYearOffset ==
    firePc \in {"loop", "done"} =>
        /\ Len(projectionData) = year
        /\ Len(projectionData) <= PointCount
        /\ \A yr \in YearOffsets :
              /\ PointAt(yr).year = metrics.currentAge + yr
              /\ PointAt(yr) = ProjectionPoint(metrics, yr)
        /\ firePc = "done" => Len(projectionData) = PointCount

\* a step of the loop either pushes one point and moves to the next year,
\* which stays within the horizon's point count, or ends the loop with
\* every point pushed: PointCount - year falls with every pass and is never
\* negative, so the loop ends after PointCount passes
LoopAdvances ==
    firePc = "loop" =>
        \/ /\ firePc' = "loop"
           /\ year' = year + 1
           /\ year' <= PointCount
           /\ Len(projectionData') = Len(projectionData) + 1
           /\ SubSeq(projectionData', 1, Len(projectionData)) = projectionData
        \/ /\ firePc' = "done"
           /\ year = PointCount
           /\ projectionData' = projectionData

\* C20: building the projection terminates, and yields one point for each
\* year offset 0, 1, ..., yearsToRetirement + 5 in increasing order, each
\* point a function of its year offset and the metrics only.
C20_ProjectionTerminates == []PointsByYearOffset /\ [][LoopAdvances]_vars

C20_Witness ==
    /\ firePc = "done"
    /\ Len(projectionData) = PointCount
    /\ Len(projectionData) >= 2
    /\ IsFin(PointAt(1).currentPath)
    /\ PointAt(1).currentPath # PointAt(0).currentPath

----------------------------------------------------------------------------
(* Further claims about the health score, the payoff plan and the projection *)

\* the color that goes with a label
ColorOfLabel(label) ==
    IF label = "Excellent" THEN "emerald"
    ELSE IF label = "Good" THEN "amber"
    ELSE "rose"

\* C25: the color band and the label are separate functions of the
\* composite score that agree on the cut-offs 80 and 60: emerald exactly
\* with Excellent, amber exactly with Good, rose exactly with Fair or Needs
\* Improvement.
C25_ColorAgreesWithLabel ==
    health.rendered =>
        /\ health.color = GetScoreColor(health.overallScore)
        /\ health.color = ColorOfLabel(health.label)
        /\ \A score \in LabelledScores :
              GetScoreColor(Num(score)) = ColorOfLabel(GetScoreLabel(Num(score)))

C25_Witness ==
    /\ health.rendered
    /\ health.label = "Fair"
    /\ health.color = "rose"
    /\ IsFin(health.overallScore)

\* the debts of a plan, whatever their order
PlanDebts(plan) == {plan[i].debt : i \in 1..Len(plan)}

\* what holds of the card whatever was selected: the strategy is one of
\* the two, the input list is in its input order, and the aggregates are
\* those of the input list
SelectorFrame ==
    /\ strategy \in Strategies
    /\ \A i \in 1..Len(debts) : debts[i].name = i
    /\ totalDebt = TotalDebt(debts)
    /\ totalMinimumPayment = TotalMinimumPayment(debts)
    /\ weightedAPR = WeightedAPR(debts)

\* a selection that changes anything sets the strategy of its button and
\* leaves the input list, the three aggregates and the debts of the plan
\* as they were
SelectionStep ==
    /\ strategy' # strategy
    /\ strategy' = "avalanche" \/ ~SelectAvalanche
    /\ strategy' = "snowball" \/ ~SelectSnowball
    /\ debts' = debts
    /\ totalDebt' = totalDebt
    /\ totalMinimumPayment' = totalMinimumPayment
    /\ weightedAPR' = weightedAPR
    /\ PlanDebts(payoffPlan') = PlanDebts(payoffPlan)

\* C26: the selector starts at avalanche and holds the last selected of
\* avalanche and snowball; a switch changes the order of the plan and the
\* debt that gets the extra payment only: the input list is neither
\* reordered nor changed and the total balance, the minimum-payment sum and
\* the weighted APR are the same under both strategies.
C26_StrategySelector ==
    /\ strategy = "avalanche"
    /\ []SelectorFrame
    /\ [][SelectionStep]_vars

C26_Witness ==
    /\ strategy = "snowball"
    /\ Len(debts) >= 2
    /\ sortedDebts # debts
    /\ sortedDebts # SortDebts(debts, "avalanche")
    /\ payoffPlan[1].debt # PayoffPlan(SortDebts(debts, "avalanche"), ulpUp)[1].debt
    /\ IsFin(weightedAPR)

\* C27: the payoff plan is a permutation of the input debts: one entry for
\* each input debt, and payoffOrder 1, 2, ..., n down the list.
C27_PlanIsPermutation ==
    /\ Len(payoffPlan) = Len(debts)
    /\ \A i \in PlanIndexes : payoffPlan[i].payoffOrder = i
    /\ {payoffPlan[i].debt.name : i \in PlanIndexes} = 1..Len(debts)
    /\ \A i \in PlanIndexes : payoffPlan[i].debt = debts[payoffPlan[i].debt.name]
    /\ \A i, j \in PlanIndexes :
          payoffPlan[i].debt.name = payoffPlan[j].debt.name => i = j

C27_Witness ==
    /\ Len(payoffPlan) = MaxDebts
    /\ payoffPlan[1].debt.name = MaxDebts
    /\ payoffPlan[MaxDebts].debt.name = 1
    /\ payoffPlan[MaxDebts].payoffOrder = MaxDebts

\* the extra payments the debt of a plan entry is tried with, from none
\* upwards: none, the extra budget, and the extra budget on top of the
\* extra payment the entry has
ExtraLadder(entry) ==
    IF entry.extraPayment = 0 THEN <<0, ExtraPayment>>
    ELSE <<0, entry.extraPayment, entry.extraPayment + ExtraPayment>>

\* the months of a plan entry's debt at every extra payment of its ladder;
\* at the entry's own extra payment they are the months of the plan
MonthsAt(entry) ==
    [k \in 1..Len(ExtraLadder(entry)) |->
        IF ExtraLadder(entry)[k] = entry.extraPayment THEN entry.monthsToPayoff
        ELSE CalculatePayoffTime(entry.debt, ExtraLadder(entry)[k], ulpUp)]

\* less has less months and more extra: finite months stay finite and do
\* not grow, and a payoff that never comes with more never comes with less
NoLater(less, more) ==
    /\ IsFin(less) => IsFin(more) /\ JsLe(more, less)
    /\ more = PosInf => less = PosInf

\* the months along the ladder do not grow
NonIncreasing(months) ==
    \A k \in 1..(Len(months) - 1) : NoLater(months[k], months[k + 1])

\* C28: the months to payoff do not grow with the extra payment: for extra
\* payments e1 <= e2, finite months at e1 give finite months at e2 that are
\* no more; the debt that gets the extra budget is paid off no later than at
\* its minimum payment alone; a debt that never amortizes at e2 never
\* amortizes at e1.
C28_MonotoneInExtra ==
    \A i \in PlanIndexes : NonIncreasing(MonthsAt(payoffPlan[i]))

C28_Witness ==
    /\ Len(payoffPlan) > 1
    /\ payoffPlan[1].extraPayment = ExtraPayment
    /\ IsFin(MonthsAt(payoffPlan[1])[1])
    /\ IsFin(payoffPlan[1].monthsToPayoff)
    /\ JsLt(payoffPlan[1].monthsToPayoff, MonthsAt(payoffPlan[1])[1])
    /\ JsLt(MonthsAt(payoffPlan[2])[2], payoffPlan[2].monthsToPayoff)

\* C29 as stated: whenever the scenario with the extra contribution reaches
\* the target within the horizon, the years saved are not negative, also
\* when the current path does not reach the target.
C29_YearsSavedNotNegative ==
    firePc = "done" /\ ReachingOffsets("withExtra") # {} => fire.yearsSaved >= 0

----------------------------------------------------------------------------
(* Claims about the goal cards and the monthly savings figure *)

CardIndexes == 1..Len(goalCards)

\* C21 as stated: the remaining amount of a goal is max(0, targetAmount -
\* currentAmount) and the monthly amount needed is never negative; a goal
\* whose current amount exceeds its target has remaining 0 and needs 0 a
\* month.
C21_RemainingClamped ==
    \A i \in CardIndexes :
        /\ JsLe(Num(0), goalCards[i].remaining)
        /\ JsLe(Num(0), goalCards[i].monthlyNeeded)
        /\ goalCards[i].goal.currentAmount > goalCards[i].goal.targetAmount =>
              /\ goalCards[i].remaining = Num(0)
              /\ goalCards[i].monthlyNeeded = Num(0)

\* the step that computes the monthly amount of a goal divides the
\* remaining amount by a number of months that is at least 1, and by
\* exactly 1 when the deadline is past or less than 30 days away
MonthlyNeededStep ==
    CalculateCardMonthly =>
        LET goal == sortedGoals[goalIdx]
            months == MonthsRemaining(goal, now)
        IN  /\ JsLe(Num(1), months)
            /\ IsFin(monthlyNeeded')
            /\ monthlyNeeded' = JsDiv(Remaining(goal), months)
            /\ DifferenceInDays(goal.targetDate, now) < 30 =>
                  months = Num(1) /\ monthlyNeeded' = Remaining(goal)

\* the same of the monthly amounts that the savings figure adds up
MonthlyTotalStep ==
    AddMonthlyNeeded =>
        LET goal == sortedGoals[goalIdx]
            months == MonthsRemaining(goal, now)
        IN  /\ JsLe(Num(1), months)
            /\ IsFin(monthlyTotal')
            /\ DifferenceInDays(goal.targetDate, now) < 30 =>
                  monthlyTotal' = JsAdd(monthlyTotal, Remaining(goal))

\* C22: monthsRemaining is max(1, daysUntil / 30), so at least 1; a deadline
\* in the past or less than 30 days away gives monthsRemaining 1 and a
\* monthly amount equal to the remaining amount; no division by zero or by a
\* negative number of months.
C22_MonthsAtLeastOne == [][MonthlyNeededStep /\ MonthlyTotalStep]_vars

C22_Witness ==
    \E i \in CardIndexes :
        /\ goalCards[i].daysRemaining < 0
        /\ JsLt(Num(0), goalCards[i].remaining)
        /\ goalCards[i].monthlyNeeded = goalCards[i].remaining

\* reduce((sum, x) => sum + x, 0) over numbers
RECURSIVE JsSum(_)
JsSum(s) == IF s = <<>> THEN Num(0) ELSE JsAdd(JsSum(SubSeq(s, 1, Len(s) - 1)), s[Len(s)])

\* C23 as stated: the monthly savings figure is the sum of the monthly
\* amounts shown on the goal cards of the same summary, all of one as-of
\* date, whatever the order of the goals and also when the clock advances
\* during the computation.
C23_TotalIsSumOfCards ==
    goalsPc = "done" =>
        monthlyTotal = JsSum([i \in CardIndexes |-> goalCards[i].monthlyNeeded])

\* the cards and the savings figure of one as-of date
CardsAt(gs, asOf) ==
    [i \in 1..Len(gs) |->
        GoalCard(gs[i], CalculateMonthlyNeeded(gs[i], asOf),
                 DifferenceInDays(gs[i].targetDate, asOf))]

MonthlyTotalAt(gs, asOf) ==
    JsSum([i \in 1..Len(gs) |-> CalculateMonthlyNeeded(gs[i], asOf)])

\* C24 as stated: the component is a function of its explicit inputs: the
\* monthly amount and the days remaining of every goal depend on the goal
\* and on one supplied as-of date only, not on the wall clock.
C24_FunctionOfAsOfDate ==
    goalsPc = "done" =>
        \E asOf \in 0..MaxClock :
            /\ goalCards = CardsAt(sortedGoals, asOf)
            /\ monthlyTotal = MonthlyTotalAt(sortedGoals, asOf)

\* C30: the two flags of a goal card exclude each other: 'Goal Achieved'
\* exactly when progress >= 100, 'Deadline approaching' exactly when
\* progress < 100 and less than 30 days remain.
C30_FlagsExclusive ==
    \A i \in CardIndexes :
        /\ ~(goalCards[i].achieved /\ goalCards[i].approaching)
        /\ goalCards[i].achieved <=> JsLe(Num(100), goalCards[i].progress)
        /\ goalCards[i].approaching <=>
              (JsLt(goalCards[i].progress, Num(100)) /\ goalCards[i].daysRemaining < 30)

C30_Witness ==
    /\ goalsPc = "done"
    /\ \E i \in CardIndexes :
          /\ goalCards[i].achieved
          /\ goalCards[i].daysRemaining < 30
          /\ goalCards[i].progress = Num(100)
    /\ \E i \in CardIndexes :
          /\ goalCards[i].approaching
          /\ goalCards[i].daysRemaining = 29
    /\ now > 0

====
